---- MODULE Spec2Model ----
(***************************************************************************)
(* fuzzy-motion.vim: the incremental target-labelling engine (getTarget),  *)
(* the renderer bookkeeping (mountTargets / unmountTargets), the cursor    *)
(* jumper (jumpTarget) and the interactive loop of the execute dispatcher. *)
(*                                                                         *)
(* Strings are sequences of character codes, so that charCodeAt(0),        *)
(* String.fromCharCode and nr2char are real conversions.                   *)
(*                                                                         *)
(* The editor (host) is reached through denops.call.  Requests travel over *)
(* one ordered channel and the host executes them in the order sent; an    *)
(* awaited call returns after the host executed it, a call that is not     *)
(* awaited stays in `inflight` until the host gets to it.                  *)
(***************************************************************************)
EXTENDS Integers, Sequences, FiniteSets, TLC

VARIABLES
  pc,              \* position of the execute dispatcher
  host,            \* denops.meta.host
  labels,          \* `labels` of execute
  autoJump,        \* `autoJump` of execute
  input,           \* `input` of the loop
  event,           \* the code fuzzy_motion#_getchar returned last
  code,            \* `code` of the loop (after the Enter rewrite)
  keys,            \* number of input events read so far
  targets,         \* `targets` of the current cycle
  targetCache,     \* module state: the Label Cache
  matchers,        \* `matchers` of the getTarget call in progress
  fzfResult,       \* `fzfResult` of the getTarget call in progress
  kensakuResults,  \* `kensakuResults` of the getTarget call in progress
  lastInput,       \* input of the last label-assignment pass
  lastResults,     \* `results` of the last label-assignment pass
  lastOut,         \* the Target list the last label-assignment pass returned
  cacheReset,      \* targetCache was reset since the last label-assignment pass
  passes,          \* label-assignment passes since the last input event
  markIds, popupIds, targetMatchIds, textPropId,   \* module state of the renderer
  matchIds,        \* `matchIds` of execute: the shading matches
  edMarks, edPopups, edMatches, edPrompt, edFresh, edNextId,  \* editor display state
  cursor, backMark,      \* editor cursor and the ` mark
  inflight,        \* requests sent and not awaited, in channel order
  jumpArg, jpc,    \* the target given to jumpTarget, and jumpTarget's position
  exitBy           \* how the loop was left

vars == <<pc, host, labels, autoJump, input, event, code, keys, targets,
          targetCache, matchers, fzfResult, kensakuResults,
          lastInput, lastResults, lastOut, cacheReset, passes,
          markIds, popupIds, targetMatchIds, textPropId, matchIds,
          edMarks, edPopups, edMatches, edPrompt, edFresh, edNextId,
          cursor, backMark, inflight, jumpArg, jpc, exitBy>>

passVars == <<lastInput, lastResults, lastOut>>

-----------------------------------------------------------------------------
(* Bounds of the model *)

MaxKeys == 3      \* input events after which the user only leaves (Escape / Enter)
MaxRes == 1       \* longest output of one matcher
MaxLabels == 2    \* longest label alphabet
MaxMatches == 3   \* longest output of one matcher when getTarget is run by itself

-----------------------------------------------------------------------------
(* Key codes *)

ENTER == 13
ESC == 27
BS == 128
C_H == 8
C_W == 23
SPACE == 32
TILDE == 126

None == [none |-> TRUE]

\* "asd...": the alphabet is a prefix of it
LabelPool == <<<<97>>, <<115>>, <<100>>, <<102>>>>

\* codes the user may send: the control keys, the first letter of LabelPool
\* (a), a letter that is no label (x), and a code outside every branch (Tab)
Codes == {ENTER, ESC, BS, C_H, C_W, 120, 97, 9}

charCodeAt0(s) == IF s = <<>> THEN -1 ELSE s[1]
fromCharCode(c) == <<c>>

\* the decimal digits of the code in place of its character (`${input}${code}`)
nr2char_Decimal(c) ==
  IF c < 10 THEN <<48 + c>>
  ELSE IF c < 100 THEN <<48 + (c \div 10), 48 + (c % 10)>>
  ELSE <<48 + (c \div 100), 48 + ((c \div 10) % 10), 48 + (c % 10)>>

nr2char(c) == <<c>>

-----------------------------------------------------------------------------
(* Words of the viewport and what the matchers may return for them *)

Viewport == [startLine |-> 1, endLine |-> 2]

Words == << [text |-> "ab", pos |-> [line |-> 1, col |-> 1]],
            [text |-> "b",  pos |-> [line |-> 1, col |-> 2]],
            [text |-> "c",  pos |-> [line |-> 2, col |-> 1]] >>

\* Result: { item: Word, start, end, score }
ResultPool ==
  { [item |-> Words[1], start |-> 0, end |-> 1, score |-> 3],
    [item |-> Words[1], start |-> 1, end |-> 2, score |-> 2],
    [item |-> Words[2], start |-> 0, end |-> 1, score |-> 2],
    [item |-> Words[3], start |-> 0, end |-> 1, score |-> 1] }

IsInjective(s) == \A i, j \in 1..Len(s) : s[i] = s[j] => i = j

\* a matcher returns each of its matches once, best first
OutputsUpTo(m) ==
  UNION { { s \in [1..n -> ResultPool] : IsInjective(s) } : n \in 0..m }

MatcherOutputs == OutputsUpTo(MaxRes)

MatcherConfigs ==
  { <<>>, <<"fzf">>, <<"kensaku">>, <<"fzf", "kensaku">>, <<"kensaku", "fzf">> }

Includes(s, x) == \E i \in 1..Len(s) : s[i] = x

\* Array.prototype.find, given the sequence `hit` of the callback's answers
\* for the elements of s: the index (from 1) of the first element it accepts,
\* or 0 where find returns undefined
Find(s, hit) ==
  IF \E i \in 1..Len(s) : hit[i]
  THEN CHOOSE i \in 1..Len(s) : hit[i] /\ \A j \in 1..(i-1) : ~hit[j]
  ELSE 0

-----------------------------------------------------------------------------
(* getTarget: aggregation *)

\* the test of lines 111-113 comparing the words' columns only
SameEffectivePos_WordCol(v, cur) ==
  /\ v.item.pos.line = cur.item.pos.line
  /\ v.item.pos.col = cur.item.pos.col

SameEffectivePos(v, cur) ==
  /\ v.item.pos.line = cur.item.pos.line
  /\ v.item.pos.col + v.start = cur.item.pos.col + cur.start

DedupStep(acc, cur) ==
  IF Find(acc, [i \in 1..Len(acc) |-> SameEffectivePos(acc[i], cur)]) # 0
  THEN acc
  ELSE Append(acc, cur)

RECURSIVE Reduce(_, _)
Reduce(concat, acc) ==
  IF concat = <<>> THEN acc
  ELSE Reduce(Tail(concat), DedupStep(acc, Head(concat)))

\* line 108 with the two spreads the other way round
Concat_KensakuFirst(fzf, kensaku) == kensaku \o fzf

Concat(fzf, kensaku) == fzf \o kensaku

Aggregate(fzf, kensaku) == Reduce(Concat(fzf, kensaku), <<>>)

-----------------------------------------------------------------------------
(* getTarget: label assignment *)

SameIdentity(cache, entry) ==
  /\ cache.pos.line = entry.item.pos.line
  /\ cache.pos.col = entry.item.pos.col
  /\ cache.start = entry.start

\* lines 146-150 left out: the label at labelIndex is taken as it is
SkipUsed_Stay(lbls, labelIndex, cachedLabels) == labelIndex

\* the while loop of lines 146-150; labelIndex is 0-based as in the source
RECURSIVE SkipUsed(_, _, _)
SkipUsed(lbls, labelIndex, cachedLabels) ==
  IF labelIndex < Len(lbls) /\ Includes(cachedLabels, lbls[labelIndex + 1])
  THEN SkipUsed(lbls, labelIndex + 1, cachedLabels)
  ELSE labelIndex

Carry(cachedTarget, entry) ==
  [text |-> entry.item.text, start |-> entry.start, end |-> entry.end,
   pos |-> entry.item.pos, score |-> entry.score, char |-> cachedTarget.char]

Fresh(entry, char) ==
  [text |-> entry.item.text, start |-> entry.start, end |-> entry.end,
   pos |-> entry.item.pos, score |-> entry.score, char |-> char]

\* LabelStep without the cache lookup of lines 130-144: every entry is
\* labelled as a new one
LabelStep_NoCarry(st, entry, cache, lbls) ==
  IF st.labelIndex < Len(lbls)
  THEN LET li == SkipUsed(lbls, st.labelIndex, st.cachedLabels) IN
       IF li >= Len(lbls)
       THEN [st EXCEPT !.labelIndex = li]
       ELSE [labelIndex |-> li,
             labeledTargets |-> Append(st.labeledTargets, Fresh(entry, lbls[li + 1])),
             cachedLabels |-> Append(st.cachedLabels, lbls[li + 1])]
  ELSE st

\* LabelStep without line 161: a label given out is not recorded as used
LabelStep_NoPush(st, entry, cache, lbls) ==
  LET cachedTarget == Find(cache, [i \in 1..Len(cache) |-> SameIdentity(cache[i], entry)]) IN
  IF cachedTarget # 0
  THEN [st EXCEPT !.labeledTargets = Append(@, Carry(cache[cachedTarget], entry))]
  ELSE IF st.labelIndex < Len(lbls)
  THEN LET li == SkipUsed(lbls, st.labelIndex, st.cachedLabels) IN
       IF li >= Len(lbls)
       THEN [st EXCEPT !.labelIndex = li]
       ELSE [labelIndex |-> li,
             labeledTargets |-> Append(st.labeledTargets, Fresh(entry, lbls[li + 1])),
             cachedLabels |-> st.cachedLabels]
  ELSE st

\* one iteration of the for loop of lines 129-164
LabelStep(st, entry, cache, lbls) ==
  LET cachedTarget == Find(cache, [i \in 1..Len(cache) |-> SameIdentity(cache[i], entry)]) IN
  IF cachedTarget # 0
  THEN [st EXCEPT !.labeledTargets = Append(@, Carry(cache[cachedTarget], entry))]
  ELSE IF st.labelIndex < Len(lbls)
  THEN LET li == SkipUsed(lbls, st.labelIndex, st.cachedLabels) IN
       IF li >= Len(lbls)
       THEN [st EXCEPT !.labelIndex = li]
       ELSE [labelIndex |-> li,
             labeledTargets |-> Append(st.labeledTargets, Fresh(entry, lbls[li + 1])),
             cachedLabels |-> Append(st.cachedLabels, lbls[li + 1])]
  ELSE st

RECURSIVE LabelLoop(_, _, _, _)
LabelLoop(st, results, cache, lbls) ==
  IF results = <<>> THEN st
  ELSE LabelLoop(LabelStep(st, Head(results), cache, lbls), Tail(results), cache, lbls)

CachedLabels(cache) == [i \in 1..Len(cache) |-> cache[i].char]

\* line 127 reserving only the chars of the cached Targets that are among
\* the results
AssignLabels_SurvivorsOnly(results, cache, lbls) ==
  LabelLoop([labelIndex |-> 0, labeledTargets |-> <<>>,
             cachedLabels |->
               CachedLabels(SelectSeq(cache,
                 LAMBDA c : \E i \in 1..Len(results) : SameIdentity(c, results[i])))],
            results, cache, lbls).labeledTargets

AssignLabels(results, cache, lbls) ==
  LabelLoop([labelIndex |-> 0, labeledTargets |-> <<>>,
             cachedLabels |-> CachedLabels(cache)],
            results, cache, lbls).labeledTargets

-----------------------------------------------------------------------------
(* getTarget as a whole *)

\* what lines 99-106 may leave in (matchers, fzfResult, kensakuResults): a
\* matcher that is not enabled contributes []; the adapters are pure
\* functions of (input, words), so for the input of the last pass they
\* return what aggregates to the results of the last pass
MatcherRuns(in) ==
  { r \in MatcherConfigs \X MatcherOutputs \X MatcherOutputs :
      /\ (~Includes(r[1], "fzf") => r[2] = <<>>)
      /\ (~Includes(r[1], "kensaku") => r[3] = <<>>)
      /\ (in = lastInput => Aggregate(r[2], r[3]) = lastResults) }

\* lines 108-167, given the matcher outputs
Labeled(f, k, cache, lbls) == AssignLabels(Aggregate(f, k), cache, lbls)

-----------------------------------------------------------------------------
(* mountTargets / unmountTargets *)

Renderer ==
  [markIds |-> markIds, popupIds |-> popupIds, targetMatchIds |-> targetMatchIds,
   textPropId |-> textPropId, edMarks |-> edMarks, edPopups |-> edPopups,
   edMatches |-> edMatches, edNextId |-> edNextId]

HlGroup(index) == IF index = 0 THEN "FuzzyMotionChar" ELSE "FuzzyMotionSubChar"

\* lines 217-229 for a buffer of one-byte characters
ExtmarkCol(target) ==
  LET col_match == target.pos.col + target.start - 1
      col_offset == IF col_match = 0 THEN 0 ELSE 1
  IN col_match - col_offset

\* lines 212-253: the extmark of one target
MountExtmark(ms, index, target) ==
  [ms EXCEPT !.markIds = Append(@, ms.edNextId),
             !.edMarks = @ \cup {[id |-> ms.edNextId, line |-> target.pos.line - 1,
                                  col |-> ExtmarkCol(target), text |-> target.char,
                                  hl |-> HlGroup(index)]},
             !.edNextId = @ + 1]

\* lines 255-278: the text property and the popup of one target; `stage`
\* names the call that fails, if one does
MountPopup(ms, index, target, stage) ==
  LET a == [ms EXCEPT !.textPropId = @ + 1,
                      !.markIds = Append(@, ms.textPropId + 1)]
      b == [a EXCEPT !.edMarks = @ \cup {[id |-> a.textPropId, line |-> target.pos.line,
                                          col |-> target.pos.col + target.start,
                                          text |-> <<>>, hl |-> ""]}]
      c == [b EXCEPT !.popupIds = Append(@, b.edNextId),
                     !.edPopups = @ \cup {[id |-> b.edNextId, text |-> target.char,
                                           prop |-> b.textPropId, hl |-> HlGroup(index)]},
                     !.edNextId = @ + 1]
  IN CASE stage = "prop" -> a
       [] stage = "popup" -> b
       [] OTHER -> c

\* lines 281-292
MountMatch(ms, target) ==
  [ms EXCEPT !.targetMatchIds = Append(@, ms.edNextId),
             !.edMatches = @ \cup {[id |-> ms.edNextId, group |-> "FuzzyMotionMatch"]},
             !.edNextId = @ + 1]

\* one iteration of the loop of lines 211-293
MountOne(ms, h, index, target, disableMatchHighlight, stage) ==
  IF stage = "pre" THEN ms
  ELSE LET lab == IF h = "nvim" THEN MountExtmark(ms, index, target)
                  ELSE MountPopup(ms, index, target, stage)
       IN IF stage \in {"prop", "popup", "match"} \/ disableMatchHighlight
          THEN lab
          ELSE MountMatch(lab, target)

RECURSIVE MountLoop(_, _, _, _, _, _, _)
MountLoop(ms, h, tgts, i, disableMatchHighlight, failAt, stage) ==
  IF i > Len(tgts) THEN ms
  ELSE IF i = failAt
  THEN MountOne(ms, h, i - 1, tgts[i], disableMatchHighlight, stage)
  ELSE MountLoop(MountOne(ms, h, i - 1, tgts[i], disableMatchHighlight, "ok"),
                 h, tgts, i + 1, disableMatchHighlight, failAt, stage)

\* the calls of one iteration that can fail, by what they leave behind
FailStages(h, disableMatchHighlight) ==
  (IF h = "nvim" THEN {"pre"} ELSE {"prop", "popup"})
    \cup (IF disableMatchHighlight THEN {} ELSE {"match"})

\* <<0, "ok">>: no call fails; <<1, "pre">> also stands for the failing read
\* of g:fuzzy_motion_disable_match_highlight
MountOutcomes(h, tgts, disableMatchHighlight) ==
  {<<0, "ok">>, <<1, "pre">>}
    \cup ((1..Len(tgts)) \X FailStages(h, disableMatchHighlight))

MatchDeletes(ids) == [i \in 1..Len(ids) |-> [op |-> "matchdelete", id |-> ids[i]]]

InSeq(s) == { s[i] : i \in 1..Len(s) }

\* unmountTargets without lines 187-191: the popup ids are forgotten, the
\* popups stay open
UnmountTargets_KeepPopups ==
  /\ edMarks' = { m \in edMarks : m.id \notin InSeq(markIds) }
  /\ IF host = "nvim"
     THEN UNCHANGED <<edPopups, popupIds>>
     ELSE /\ edPopups' = edPopups
          /\ popupIds' = <<>>
  /\ inflight' = inflight \o MatchDeletes(targetMatchIds)
  /\ markIds' = <<>>
  /\ targetMatchIds' = <<>>
  /\ edFresh' = FALSE

\* unmountTargets without lines 195-199: the ids are forgotten, the
\* highlights are not deleted
UnmountTargets_NoMatchDelete ==
  /\ edMarks' = { m \in edMarks : m.id \notin InSeq(markIds) }
  /\ IF host = "nvim"
     THEN UNCHANGED <<edPopups, popupIds>>
     ELSE /\ edPopups' = { q \in edPopups : q.id \notin InSeq(popupIds) }
          /\ popupIds' = <<>>
  /\ inflight' = inflight
  /\ markIds' = <<>>
  /\ targetMatchIds' = <<>>
  /\ edFresh' = FALSE

\* lines 170-203
UnmountTargets ==
  /\ edMarks' = { m \in edMarks : m.id \notin InSeq(markIds) }
  /\ IF host = "nvim"
     THEN UNCHANGED <<edPopups, popupIds>>
     ELSE /\ edPopups' = { q \in edPopups : q.id \notin InSeq(popupIds) }
          /\ popupIds' = <<>>
  /\ inflight' = inflight \o MatchDeletes(targetMatchIds)
  /\ markIds' = <<>>
  /\ targetMatchIds' = <<>>
  /\ edFresh' = FALSE

-----------------------------------------------------------------------------
(* jumpTarget: called and not awaited (lines 387, 406) *)

\* the synchronous part of the call: the request for "normal! m`" is sent
JumpTargetCall(target) ==
  /\ jumpArg' = target
  /\ jpc' = "mark"

\* an awaited host call returns after every request sent before it was
\* executed; jumpTarget's second request is sent when the answer to its
\* first arrives, so at most one awaited step of execute completes in between
CanAwait == inflight = <<>> /\ jpc \notin {"mark", "cursor1"}

Awaited == jpc' = IF jpc = "cursor0" THEN "cursor1" ELSE jpc

\* jumpTarget without line 297: the ` mark is not set
JumpMark_NoMark ==
  /\ jpc = "mark"
  /\ backMark' = backMark
  /\ jpc' = "cursor0"
  /\ UNCHANGED <<pc, host, labels, autoJump, input, event, code, keys,
                 targets, targetCache, matchers, fzfResult, kensakuResults,
                 passVars, cacheReset, passes, markIds, popupIds, targetMatchIds, textPropId,
                 matchIds, edMarks, edPopups, edMatches, edPrompt, edFresh,
                 edNextId, cursor, inflight, jumpArg, exitBy>>

\* line 297, executed by the host
JumpMark ==
  /\ jpc = "mark"
  /\ backMark' = cursor
  /\ jpc' = "cursor0"
  /\ UNCHANGED <<pc, host, labels, autoJump, input, event, code, keys,
                 targets, targetCache, matchers, fzfResult, kensakuResults,
                 passVars, cacheReset, passes, markIds, popupIds, targetMatchIds, textPropId,
                 matchIds, edMarks, edPopups, edMatches, edPrompt, edFresh,
                 edNextId, cursor, inflight, jumpArg, exitBy>>

\* line 298, executed by the host
JumpCursor ==
  /\ jpc \in {"cursor0", "cursor1"}
  /\ cursor' = [line |-> jumpArg.pos.line, col |-> jumpArg.pos.col + jumpArg.start]
  /\ jpc' = "done"
  /\ UNCHANGED <<pc, host, labels, autoJump, input, event, code, keys,
                 targets, targetCache, matchers, fzfResult, kensakuResults,
                 passVars, cacheReset, passes, markIds, popupIds, targetMatchIds, textPropId,
                 matchIds, edMarks, edPopups, edMatches, edPrompt, edFresh,
                 edNextId, backMark, inflight, jumpArg, exitBy>>

\* the host executes, in order, the requests sent and not awaited (all are
\* matchdelete calls: lines 197 and 416)
HostDeliver ==
  /\ inflight # <<>>
  /\ jpc # "mark"
  /\ edMatches' = { m \in edMatches : \A i \in 1..Len(inflight) : m.id # inflight[i].id }
  /\ inflight' = <<>>
  /\ edFresh' = FALSE
  /\ UNCHANGED <<pc, host, labels, autoJump, input, event, code, keys,
                 targets, targetCache, matchers, fzfResult, kensakuResults,
                 passVars, cacheReset, passes, markIds, popupIds, targetMatchIds, textPropId,
                 matchIds, edMarks, edPopups, edPrompt, edNextId,
                 cursor, backMark, jumpArg, jpc, exitBy>>

-----------------------------------------------------------------------------
(* The execute dispatcher (lines 326-429) *)

sessVars == <<host, labels, autoJump>>
callVars == <<matchers, fzfResult, kensakuResults>>
histVars == <<passVars, cacheReset, passes>>
rendVars == <<markIds, popupIds, targetMatchIds, textPropId>>
dispVars == <<edMarks, edPopups, edMatches, edNextId>>
jumpVars == <<jumpArg, jpc, cursor, backMark>>

\* where the cursor is when the session starts, and the unset ` mark
InitCursor == [line |-> 2, col |-> 2]
NoMark == [line |-> 0, col |-> 0]

Prompt(in) == [text |-> "fuzzy-motion: ", input |-> in]
NoPrompt == [text |-> "", input |-> <<>>]

Init ==
  /\ pc = "idle"
  /\ host \in {"nvim", "vim"}
  /\ labels = <<>>
  /\ autoJump = FALSE
  /\ input = <<>>
  /\ event = 0
  /\ code = 0
  /\ keys = 0
  /\ targets = <<>>
  /\ targetCache = <<>>
  /\ matchers = <<>>
  /\ fzfResult = <<>>
  /\ kensakuResults = <<>>
  /\ lastInput = <<>>
  /\ lastResults = <<>>
  /\ lastOut = <<>>
  /\ cacheReset = TRUE
  /\ passes = 0
  /\ markIds = <<>>
  /\ popupIds = <<>>
  /\ targetMatchIds = <<>>
  /\ textPropId = 0
  /\ matchIds = <<>>
  /\ edMarks = {}
  /\ edPopups = {}
  /\ edMatches = {}
  /\ edPrompt = NoPrompt
  /\ edFresh = TRUE
  /\ edNextId = 1
  /\ cursor = InitCursor
  /\ backMark = NoMark
  /\ inflight = <<>>
  /\ jumpArg = None
  /\ jpc = "idle"
  /\ exitBy = "none"

\* lines 330-332: [...Array(endLine + startLine + 1)].map((_, i) => i + startLine)
LineNumbers ==
  [i \in 1..(Viewport.endLine + Viewport.startLine + 1) |-> (i - 1) + Viewport.startLine]

\* lines 327-342
Start ==
  /\ pc = "idle"
  /\ targetCache' = <<>>
  /\ cacheReset' = TRUE
  /\ matchIds' = [i \in 1..Len(LineNumbers) |-> edNextId + i - 1]
  /\ edMatches' = edMatches \cup
       { [id |-> edNextId + i - 1, group |-> "FuzzyMotionShade"] : i \in 1..Len(LineNumbers) }
  /\ edNextId' = edNextId + Len(LineNumbers)
  /\ edFresh' = FALSE
  /\ pc' = "getWords"
  /\ UNCHANGED <<sessVars, input, event, code, keys, targets, callVars,
                 passVars, passes, rendVars, edMarks,
                 edPopups, edPrompt, inflight, jumpVars, exitBy>>

\* an exception outside the try block leaves execute at once
Throw ==
  /\ pc' = "done"
  /\ exitBy' = "throw"

\* line 344
GetWords ==
  /\ pc = "getWords"
  /\ \/ pc' = "labels" /\ UNCHANGED exitBy
     \/ Throw
  /\ UNCHANGED <<sessVars, input, event, code, keys, targets, targetCache,
                 callVars, histVars, rendVars, matchIds, dispVars,
                 edPrompt, edFresh, inflight, jumpVars>>

LabelAlphabets == { SubSeq(LabelPool, 1, n) : n \in 0..MaxLabels }

\* lines 345-348
ReadLabels ==
  /\ pc = "labels"
  /\ \/ /\ labels' \in LabelAlphabets
        /\ pc' = "autoJump"
        /\ UNCHANGED exitBy
     \/ Throw /\ UNCHANGED labels
  /\ UNCHANGED <<host, autoJump, input, event, code, keys, targets, targetCache,
                 callVars, histVars, rendVars, matchIds, dispVars,
                 edPrompt, edFresh, inflight, jumpVars>>

\* lines 350-356
ReadAutoJump ==
  /\ pc = "autoJump"
  /\ \/ /\ autoJump' \in BOOLEAN
        /\ input' = <<>>
        /\ pc' = "echo"
        /\ UNCHANGED exitBy
     \/ Throw /\ UNCHANGED <<autoJump, input>>
  /\ UNCHANGED <<host, labels, event, code, keys, targets, targetCache,
                 callVars, histVars, rendVars, matchIds, dispVars,
                 edPrompt, edFresh, inflight, jumpVars>>

\* an exception inside the try block: line 411
Catch ==
  /\ pc' = "finally"
  /\ exitBy' = "error"

\* line 358
Echo ==
  /\ pc = "echo"
  /\ CanAwait
  /\ edPrompt' = Prompt(input)
  /\ edFresh' = FALSE
  /\ pc' = "unmount"
  /\ UNCHANGED <<sessVars, input, event, code, keys, targets, targetCache,
                 callVars, histVars, rendVars, matchIds, dispVars,
                 inflight, jumpVars, exitBy>>

\* line 359
Unmount ==
  /\ pc = "unmount"
  /\ CanAwait
  /\ UnmountTargets
  /\ pc' = "getTarget"
  /\ UNCHANGED <<sessVars, input, event, code, keys, targets, targetCache,
                 callVars, histVars, textPropId, matchIds, edMatches,
                 edNextId, edPrompt, jumpVars, exitBy>>

\* lines 99-106: the matchers are read and run
RunMatchers(in) ==
  \E r \in MatcherRuns(in) :
    /\ matchers' = r[1]
    /\ fzfResult' = r[2]
    /\ kensakuResults' = r[3]

\* lines 108-167: the state getTarget leaves when it returns `out` for `in`
GetTargetReturns(in, out) ==
  /\ targetCache' = out
  /\ lastInput' = in
  /\ lastResults' = Aggregate(fzfResult, kensakuResults)
  /\ lastOut' = out
  /\ cacheReset' = FALSE
  /\ passes' = passes + 1
  /\ matchers' = <<>>
  /\ fzfResult' = <<>>
  /\ kensakuResults' = <<>>

\* getTarget without lines 95-97
ShortCircuit_Never(in) == FALSE

\* the early return of line 95 taken for one typed character as well
ShortCircuit_UpToOne(in) == Len(in) <= 1

\* line 95
ShortCircuit(in) == in = <<>>

\* lines 360-365, up to the matchers' answers (lines 95-106 of getTarget)
Recompute ==
  /\ pc = "getTarget"
  /\ IF ShortCircuit(input)
     THEN /\ targets' = <<>>
          /\ pc' = "mount"
          /\ UNCHANGED <<callVars, exitBy>>
     ELSE /\ CanAwait
          /\ UNCHANGED targets
          /\ \/ RunMatchers(input) /\ pc' = "assign" /\ UNCHANGED exitBy
             \/ Catch /\ UNCHANGED callVars
  /\ UNCHANGED <<sessVars, input, event, code, keys, targetCache, histVars,
                 rendVars, matchIds, dispVars, edPrompt, edFresh, inflight,
                 jumpVars>>

\* lines 360-365, from the matchers' answers on (lines 108-167 of getTarget)
Assign ==
  /\ pc = "assign"
  /\ LET out == Labeled(fzfResult, kensakuResults, targetCache, labels) IN
     /\ GetTargetReturns(input, out)
     /\ targets' = out
  /\ pc' = "mount"
  /\ UNCHANGED <<sessVars, input, event, code, keys, rendVars, matchIds,
                 dispVars, edPrompt, edFresh, inflight, jumpVars, exitBy>>

\* line 366
Mount ==
  /\ pc = "mount"
  /\ CanAwait
  /\ \E disableMatchHighlight \in BOOLEAN :
       \E o \in MountOutcomes(host, targets, disableMatchHighlight) :
         LET ms == MountLoop(Renderer, host, targets, 1, disableMatchHighlight, o[1], o[2]) IN
         /\ markIds' = ms.markIds
         /\ popupIds' = ms.popupIds
         /\ targetMatchIds' = ms.targetMatchIds
         /\ textPropId' = ms.textPropId
         /\ edMarks' = ms.edMarks
         /\ edPopups' = ms.edPopups
         /\ edMatches' = ms.edMatches
         /\ edNextId' = ms.edNextId
         /\ edFresh' = (edFresh /\ ms.edNextId = edNextId /\ ms.edMarks = edMarks)
         /\ IF o[1] = 0
            THEN pc' = "redraw" /\ UNCHANGED exitBy
            ELSE Catch
  /\ UNCHANGED <<sessVars, input, event, code, keys, targets, targetCache,
                 callVars, histVars, matchIds, edPrompt, inflight, jumpVars>>

\* line 367
Redraw ==
  /\ pc = "redraw"
  /\ CanAwait
  /\ edFresh' = TRUE
  /\ pc' = "getchar"
  /\ UNCHANGED <<sessVars, input, event, code, keys, targets, targetCache,
                 callVars, histVars, rendVars, matchIds, dispVars,
                 edPrompt, inflight, jumpVars, exitBy>>

\* the codes the user sends: any of Codes for the first MaxKeys events, then
\* only the two keys that leave
Offered == IF keys < MaxKeys THEN Codes ELSE {ESC, ENTER}

\* line 374 taking the last Target for the first
EnterCode_Last(tgts) == charCodeAt0(tgts[Len(tgts)].char)

\* line 374
EnterCode(tgts) == charCodeAt0(tgts[1].char)

\* line 381
IsLabelCode(lbls, c) == Find(lbls, [i \in 1..Len(lbls) |-> charCodeAt0(lbls[i]) = c]) # 0

\* lines 383-384 resolving every label key to the first Target
TargetOfCode_First(tgts, c) == IF tgts = <<>> THEN 0 ELSE 1

\* lines 383-384: the index of `target` in targets, 0 for undefined
TargetOfCode(tgts, c) ==
  LET targetChar == fromCharCode(c) IN 
       Find(tgts, [i \in 1..Len(tgts) |-> tgts[i].char = targetChar])

\* input.slice(0, -1)
DropLast(in) == IF in = <<>> THEN <<>> ELSE SubSeq(in, 1, Len(in) - 1)

\* lines 370-376: `code` after the Enter rewrite
CodeOf(c, tgts) == IF c = ENTER /\ Len(tgts) # 0 THEN EnterCode(tgts) ELSE c

\* the if-chain with the Target test inside the condition of line 380: a
\* label key without a Target goes on to the later branches
KeyBranch_FallThrough(cd, tgts, lbls) ==
  IF cd = ESC THEN "break"
  ELSE IF IsLabelCode(lbls, cd) /\ TargetOfCode(tgts, cd) # 0 THEN "jump"
  ELSE IF cd = BS \/ cd = C_H THEN "backspace"
  ELSE IF cd = C_W THEN "clear"
  ELSE IF SPACE <= cd /\ cd <= TILDE THEN "append"
  ELSE "ignore"

\* lines 378-409: the branch of the if-chain that `code` selects
KeyBranch(cd, tgts, lbls) ==
  IF cd = ESC THEN "break"
  ELSE IF IsLabelCode(lbls, cd)
  THEN (IF TargetOfCode(tgts, cd) # 0 THEN "jump" ELSE "noop")
  ELSE IF cd = BS \/ cd = C_H THEN "backspace"
  ELSE IF cd = C_W THEN "clear"
  ELSE IF SPACE <= cd /\ cd <= TILDE THEN "append"
  ELSE "ignore"

\* Branch without the test of line 371
Branch_NoEmptyTest(c, tgts, lbls) == KeyBranch(CodeOf(c, tgts), tgts, lbls)

\* lines 370-409: what the event `c` leads to
Branch(c, tgts, lbls) ==
  IF c = ENTER /\ Len(tgts) = 0 THEN "return"
  ELSE KeyBranch(CodeOf(c, tgts), tgts, lbls)

\* lines 392, 395
InputAfter(branch, in) ==
  CASE branch = "backspace" -> DropLast(in)
    [] branch = "clear" -> <<>>
    [] OTHER -> in

\* line 391 missing: only clear-word empties the cache
CacheAfter_OnlyClear(branch, cache) ==
  IF branch = "clear" THEN <<>> ELSE cache

\* lines 391, 394
CacheAfter(branch, cache) ==
  IF branch \in {"backspace", "clear"} THEN <<>> ELSE cache

\* lines 369-396: one input event and the branch it selects
ReadKey ==
  /\ pc = "getchar"
  /\ CanAwait
  /\ \/ /\ Catch
        /\ UNCHANGED <<event, code, keys, passes, input, targetCache, cacheReset,
                       jumpVars>>
     \/ \E c \in Offered :
          LET branch == Branch(c, targets, labels)
              cd == CodeOf(c, targets)
          IN /\ event' = c
             /\ code' = cd
             /\ keys' = keys + 1
             /\ passes' = 0
             /\ input' = InputAfter(branch, input)
             /\ targetCache' = CacheAfter(branch, targetCache)
             /\ cacheReset' = (cacheReset \/ branch \in {"backspace", "clear"})
             /\ pc' = CASE branch \in {"return", "break", "jump"} -> "finally"
                        [] branch = "append" -> "append"
                        [] OTHER -> "echo"
             /\ exitBy' = CASE branch = "return" -> "enter"
                            [] branch = "break" -> "esc"
                            [] branch = "jump" -> "label"
                            [] OTHER -> exitBy
             /\ IF branch = "jump"
                THEN /\ JumpTargetCall(targets[TargetOfCode(targets, cd)])
                     /\ UNCHANGED <<cursor, backMark>>
                ELSE UNCHANGED jumpVars
  /\ UNCHANGED <<sessVars, targets, callVars, passVars,
                 rendVars, matchIds, dispVars, edPrompt, edFresh, inflight>>

\* lines 397-404, up to the matchers' answers
AppendChar ==
  /\ pc = "append"
  /\ CanAwait
  /\ \/ /\ Catch
        /\ \/ UNCHANGED input                    \* nr2char failed (line 397)
           \/ input' = input \o nr2char(code)    \* getTarget failed (line 399)
        /\ UNCHANGED callVars
     \/ LET codeStr == nr2char(code) IN
        /\ input' = input \o codeStr
        /\ RunMatchers(input')
        /\ pc' = "appendAssign"
        /\ UNCHANGED exitBy
  /\ UNCHANGED <<sessVars, event, code, keys, targets, targetCache, histVars,
                 rendVars, matchIds, dispVars, edPrompt, edFresh, inflight,
                 jumpVars>>

\* the test of line 405 with "at least one" for "exactly one"
AutoJumps_AnyTarget(aj, out) == aj /\ Len(out) >= 1

\* line 405
AutoJumps(aj, out) == aj /\ Len(out) = 1

\* lines 399-409, from the matchers' answers on
AppendAssign ==
  /\ pc = "appendAssign"
  /\ LET out == Labeled(fzfResult, kensakuResults, targetCache, labels) IN
     /\ GetTargetReturns(input, out)
     /\ IF AutoJumps(autoJump, out)
        THEN /\ JumpTargetCall(out[1])
             /\ pc' = "finally"
             /\ exitBy' = "auto"
             /\ UNCHANGED <<cursor, backMark>>
        ELSE /\ pc' = "echo"
             /\ UNCHANGED <<jumpVars, exitBy>>
  /\ UNCHANGED <<sessVars, input, event, code, keys, targets, rendVars, matchIds,
                 dispVars, edPrompt, edFresh, inflight>>

\* lines 414-418: the matchdelete calls are sent, none is awaited
FinShade ==
  /\ pc = "finally"
  /\ inflight' = inflight \o MatchDeletes(matchIds)
  /\ pc' = "finUnmount"
  /\ UNCHANGED <<sessVars, input, event, code, keys, targets, targetCache,
                 callVars, histVars, rendVars, matchIds, dispVars,
                 edPrompt, edFresh, jumpVars, exitBy>>

\* unmountTargets awaits the host only when there is a mark or a popup to remove
UnmountAwaits == markIds # <<>> \/ (host = "vim" /\ popupIds # <<>>)

\* line 420
FinUnmount ==
  /\ pc = "finUnmount"
  /\ IF UnmountAwaits THEN CanAwait /\ Awaited ELSE UNCHANGED jpc
  /\ UnmountTargets
  /\ pc' = "finEcho"
  /\ UNCHANGED <<sessVars, input, event, code, keys, targets, targetCache,
                 callVars, histVars, textPropId, matchIds, edMatches,
                 edNextId, edPrompt, jumpArg, cursor, backMark, exitBy>>

\* line 422
FinEcho ==
  /\ pc = "finEcho"
  /\ CanAwait /\ Awaited
  /\ edPrompt' = NoPrompt
  /\ edFresh' = FALSE
  /\ pc' = "finRedraw"
  /\ UNCHANGED <<sessVars, input, event, code, keys, targets, targetCache,
                 callVars, histVars, rendVars, matchIds, dispVars,
                 inflight, jumpArg, cursor, backMark, exitBy>>

\* lines 423-427
FinRedraw ==
  /\ pc = "finRedraw"
  /\ CanAwait /\ Awaited
  /\ edFresh' = TRUE
  /\ pc' = "done"
  /\ UNCHANGED <<sessVars, input, event, code, keys, targets, targetCache,
                 callVars, histVars, rendVars, matchIds, dispVars,
                 edPrompt, inflight, jumpArg, cursor, backMark, exitBy>>

Next ==
  \/ Start
  \/ GetWords
  \/ ReadLabels
  \/ ReadAutoJump
  \/ Echo
  \/ Unmount
  \/ Recompute
  \/ Assign
  \/ Mount
  \/ Redraw
  \/ ReadKey
  \/ AppendChar
  \/ AppendAssign
  \/ FinShade
  \/ FinUnmount
  \/ FinEcho
  \/ FinRedraw
  \/ HostDeliver
  \/ JumpMark
  \/ JumpCursor

Spec == Init /\ [][Next]_vars

-----------------------------------------------------------------------------
(* getTarget by itself (lines 84-168): a sequence of calls on the module's
   targetCache, with any matcher outputs, the callers emptying the cache
   between calls (lines 316, 327, 391, 394) or not *)

GetTargetInputs == { <<>>, <<120>> }

\* what no step of getTarget touches
restVars == <<host, autoJump, event, code, keys, lastInput, cacheReset, passes,
              markIds, popupIds, targetMatchIds, textPropId, matchIds, edMarks,
              edPopups, edMatches, edPrompt, edFresh, edNextId, cursor,
              backMark, inflight, jumpArg, jpc, exitBy>>

GetTargetInit ==
  /\ pc = "gt:call"
  /\ host = "nvim"
  /\ labels \in LabelAlphabets
  /\ autoJump = FALSE
  /\ input = <<>>
  /\ event = 0
  /\ code = 0
  /\ keys = 0
  /\ targets = <<>>
  /\ targetCache = <<>>
  /\ matchers = <<>>
  /\ fzfResult = <<>>
  /\ kensakuResults = <<>>
  /\ lastInput = <<>>
  /\ lastResults = <<>>
  /\ lastOut = <<>>
  /\ cacheReset = TRUE
  /\ passes = 0
  /\ markIds = <<>>
  /\ popupIds = <<>>
  /\ targetMatchIds = <<>>
  /\ textPropId = 0
  /\ matchIds = <<>>
  /\ edMarks = {}
  /\ edPopups = {}
  /\ edMatches = {}
  /\ edPrompt = NoPrompt
  /\ edFresh = TRUE
  /\ edNextId = 1
  /\ cursor = InitCursor
  /\ backMark = NoMark
  /\ inflight = <<>>
  /\ jumpArg = None
  /\ jpc = "idle"
  /\ exitBy = "none"

\* lines 95-106: the early return, or the matchers' answers
GetTargetMatch ==
  /\ pc = "gt:call"
  /\ \E in \in GetTargetInputs :
       /\ input' = in
       /\ IF ShortCircuit(in)
          THEN /\ targets' = <<>>
               /\ pc' = "gt:ret"
               /\ UNCHANGED callVars
          ELSE /\ \E cfg \in MatcherConfigs :
                    \E f \in OutputsUpTo(IF Includes(cfg, "fzf") THEN MaxMatches ELSE 0),
                       k \in OutputsUpTo(IF Includes(cfg, "kensaku") THEN MaxMatches ELSE 0) :
                      /\ matchers' = cfg
                      /\ fzfResult' = f
                      /\ kensakuResults' = k
               /\ pc' = "gt:label"
               /\ UNCHANGED targets
  /\ UNCHANGED <<labels, targetCache, lastResults, lastOut, restVars>>

\* lines 108-164: results and labeledTargets
GetTargetLabel ==
  /\ pc = "gt:label"
  /\ lastResults' = Aggregate(fzfResult, kensakuResults)
  /\ lastOut' = Labeled(fzfResult, kensakuResults, targetCache, labels)
  /\ pc' = "gt:store"
  /\ UNCHANGED <<labels, input, targets, targetCache, callVars, restVars>>

\* lines 166-167
GetTargetStore ==
  /\ pc = "gt:store"
  /\ targetCache' = lastOut
  /\ targets' = lastOut
  /\ pc' = "gt:ret"
  /\ UNCHANGED <<labels, input, callVars, lastResults, lastOut, restVars>>

\* the caller goes on to its next call, emptying the cache first (lines 391,
\* 394) or not
GetTargetAgain ==
  /\ pc = "gt:ret"
  /\ targetCache' \in {targetCache, <<>>}
  /\ input' = <<>>
  /\ targets' = <<>>
  /\ matchers' = <<>>
  /\ fzfResult' = <<>>
  /\ kensakuResults' = <<>>
  /\ lastResults' = <<>>
  /\ lastOut' = <<>>
  /\ pc' = "gt:call"
  /\ UNCHANGED <<labels, restVars>>

GetTargetNext ==
  \/ GetTargetMatch
  \/ GetTargetLabel
  \/ GetTargetStore
  \/ GetTargetAgain

GetTargetSpec == GetTargetInit /\ [][GetTargetNext]_vars

-----------------------------------------------------------------------------
(* Properties *)

TripleOf(t) == <<t.pos.line, t.pos.col, t.start>>
TripleOfResult(r) == <<r.item.pos.line, r.item.pos.col, r.start>>

\* a step in which a label-assignment pass (lines 108-167) completes
PassStep == pc \in {"assign", "appendAssign"}

ExitedPcs == {"finally", "finUnmount", "finEcho", "finRedraw", "done"}

\* C1. Label stability: when a label-assignment pass follows another with no
\* reset of the Label Cache in between, every Target of the earlier output
\* whose identity triple is among the aggregated results of the later pass is
\* in the later output with the same char.
C1_LabelStability ==
  [][ (PassStep /\ ~cacheReset) =>
        \A i \in 1..Len(lastOut) :
          (\E j \in 1..Len(lastResults') :
              TripleOfResult(lastResults'[j]) = TripleOf(lastOut[i]))
          => \E k \in 1..Len(lastOut') :
               /\ TripleOf(lastOut'[k]) = TripleOf(lastOut[i])
               /\ lastOut'[k].char = lastOut[i].char ]_vars

\* after "x" and "xx" the second entry of the results carries the first label
\* of the alphabet and the first entry the second label: the second entry
\* kept the char it had in the pass before
C1_Witness ==
  /\ ~cacheReset
  /\ Len(lastInput) = 2
  /\ Len(labels) = 2
  /\ Len(lastOut) = 2
  /\ lastOut[1].char = labels[2]
  /\ lastOut[2].char = labels[1]

\* the codes of the labels of the alphabet
LabelCodes == { labels[i][1] : i \in 1..Len(labels) }

\* where the Cursor Jumper puts the cursor for a Target
Destination(t) == [line |-> t.pos.line, col |-> t.pos.col + t.start]

\* the last input event was read and no label-assignment pass has run since:
\* `targets` is the list the event was read against (or [] once a cycle with
\* empty input began)
SinceKey == keys > 0 /\ passes = 0

\* C2. Label-key jump: when the event is the code of a label and the current
\* Target list holds a Target with that char, jumpTarget is called for that
\* Target and for no other, its destination is (pos.line, pos.col + start),
\* and the loop is left.
C2_LabelKeyJump ==
  /\ (SinceKey /\ event \in LabelCodes
        /\ (\E i \in 1..Len(targets) : targets[i].char = <<event>>))
     => /\ pc \in ExitedPcs
        /\ exitBy = "label"
        /\ jpc # "idle"
        /\ \A i \in 1..Len(targets) : targets[i].char = <<event>> => jumpArg = targets[i]
  /\ (exitBy = "label" /\ event # ENTER) => jumpArg.char = <<event>>
  /\ (exitBy = "label" /\ jpc = "done") => cursor = Destination(jumpArg)

\* the label key of the second Target of the list was pressed and the cursor
\* moved there
C2_Witness ==
  /\ exitBy = "label"
  /\ event = 97
  /\ Len(targets) = 2
  /\ jumpArg = targets[2]
  /\ jpc = "done"
  /\ cursor = Destination(targets[2])
  /\ cursor # Destination(targets[1])

\* C3. Auto-jump: an append that auto-jumped did so with auto-jump enabled and
\* exactly one Target for the new input, called jumpTarget for it and left the
\* loop with no render cycle for the new input and no further input event; an
\* append that did not auto-jump (auto-jump disabled, or zero or several
\* Targets) called no jumpTarget and goes to the next cycle with the new input.
C3_AutoJump ==
  /\ exitBy = "auto" =>
       /\ autoJump
       /\ Len(lastOut) = 1
       /\ jumpArg = lastOut[1]
       /\ pc \in ExitedPcs
       /\ passes = 1
       /\ lastInput = input
       /\ input # <<>> /\ input[Len(input)] = event
       /\ edPrompt \in {NoPrompt, Prompt(SubSeq(input, 1, Len(input) - 1))}
  /\ (pc = "echo" /\ passes = 1) =>
       /\ ~(autoJump /\ Len(lastOut) = 1)
       /\ jumpArg = None
       /\ jpc = "idle"
       /\ exitBy = "none"
       /\ lastInput = input
       /\ input # <<>> /\ input[Len(input)] = event
       /\ targetCache = lastOut

\* two Targets were shown for "x", "xx" left one, and the session jumped to it
C3_Witness ==
  /\ exitBy = "auto"
  /\ pc = "done"
  /\ Len(input) = 2
  /\ Len(targets) = 2
  /\ jpc = "done"
  /\ cursor = Destination(lastOut[1])

\* C4. Enter with a non-empty Target list jumps to the Target at index 0 and
\* leaves the loop.
C4_EnterJumpsToFirst ==
  (SinceKey /\ event = ENTER /\ targets # <<>>) =>
     /\ pc \in ExitedPcs
     /\ exitBy = "label"
     /\ jpc # "idle"
     /\ jumpArg = targets[1]
     /\ (jpc = "done" => cursor = Destination(targets[1]))

\* Enter with two Targets shown, the first of which does not carry the first
\* label of the alphabet
C4_Witness ==
  /\ event = ENTER
  /\ Len(targets) = 2
  /\ targets[1].char # labels[1]
  /\ jumpArg = targets[1]
  /\ jpc = "done"
  /\ cursor = Destination(targets[1])

\* C5. Escape, and Enter with an empty Target list, leave the loop without
\* calling jumpTarget: the cursor and the ` mark stay where they were.
C5_ExitWithoutJump ==
  /\ (keys > 0 /\ event = ESC) => (exitBy = "esc" /\ pc \in ExitedPcs)
  /\ (SinceKey /\ event = ENTER /\ targets = <<>>) => (exitBy = "enter" /\ pc \in ExitedPcs)
  /\ exitBy \in {"esc", "enter"} =>
       /\ jumpArg = None
       /\ jpc = "idle"
       /\ cursor = InitCursor
       /\ backMark = NoMark

\* Enter on an empty Target list while input is not empty, cleanup done
C5_Witness ==
  /\ exitBy = "enter"
  /\ pc = "done"
  /\ input # <<>>
  /\ targets = <<>>
  /\ cursor = InitCursor

EntryOf(t) == [text |-> t.text, start |-> t.start, end |-> t.end, pos |-> t.pos,
               score |-> t.score]
EntryOfResult(r) == [text |-> r.item.text, start |-> r.start, end |-> r.end,
                     pos |-> r.item.pos, score |-> r.score]

\* `out` is the first n entries of `res`, in the order of `res`
FirstN(out, res, n) ==
  /\ Len(out) = n
  /\ \A i \in 1..n : EntryOf(out[i]) = EntryOfResult(res[i])

\* where in `res` the i-th Target of `out` comes from (0: nowhere)
OriginOf(out, res, i) ==
  IF \E j \in 1..Len(res) : EntryOfResult(res[j]) = EntryOf(out[i])
  THEN CHOOSE j \in 1..Len(res) : EntryOfResult(res[j]) = EntryOf(out[i])
  ELSE 0

\* `out` is made of entries of `res` in the order of `res`
InOrderOf(out, res) ==
  /\ \A i \in 1..Len(out) : OriginOf(out, res, i) # 0
  /\ \A i, j \in 1..Len(out) : i < j => OriginOf(out, res, i) < OriginOf(out, res, j)

\* C7 as stated. Alphabet exhaustion: a pass with an alphabet of N labels and
\* M > N deduplicated matches puts out exactly N Targets, the first N entries
\* in aggregator order.
C7_FirstNAlways ==
  (pc = "gt:store" /\ Len(lastResults) > Len(labels))
    => FirstN(lastOut, lastResults, Len(labels))

\* C7 as amended. Alphabet exhaustion: a pass with an alphabet of N distinct
\* labels and M > N deduplicated matches puts out at most N Targets, entries
\* of the aggregated results in aggregator order with pairwise distinct
\* chars; when the pass reads an empty Label Cache they are exactly N, the
\* first N entries in aggregator order, and the other M-N are dropped.
C7_AlphabetExhaustion ==
  (pc = "gt:store" /\ Len(lastResults) > Len(labels)) =>
     /\ Len(lastOut) <= Len(labels)
     /\ InOrderOf(lastOut, lastResults)
     /\ \A i, j \in 1..Len(lastOut) : lastOut[i].char = lastOut[j].char => i = j
     /\ targetCache = <<>> => FirstN(lastOut, lastResults, Len(labels))

\* three matches, two labels, nothing cached: two Targets put out
C7_Witness ==
  /\ pc = "gt:store"
  /\ targetCache = <<>>
  /\ Len(labels) = 2
  /\ Len(lastResults) = 3
  /\ Len(lastOut) = 2

\* the effective match position of a match
EffectivePos(r) == <<r.item.pos.line, r.item.pos.col + r.start>>

\* the places of `c` that hold the first occurrence of an effective position
FirstOccurrences(c) ==
  { i \in 1..Len(c) : \A j \in 1..(i - 1) : EffectivePos(c[j]) # EffectivePos(c[i]) }

\* the n-th smallest member of the set S of numbers
NthOf(S, n) == CHOOSE i \in S : Cardinality({ j \in S : j < i }) = n - 1

\* C8. Aggregator dedup: the aggregated results are the entries of the
\* concatenation fzf ++ kensaku at the first occurrence of each effective
\* position, in the order of the concatenation: no two of them share an
\* effective position and every entry left out has the effective position
\* of an earlier entry that is kept.
C8_AggregatorDedup ==
  pc \in {"gt:store", "gt:ret"} /\ input # <<>> =>
    LET c == fzfResult \o kensakuResults
        kept == FirstOccurrences(c)
    IN /\ Len(lastResults) = Cardinality(kept)
       /\ \A n \in 1..Len(lastResults) : lastResults[n] = c[NthOf(kept, n)]
       /\ \A m, n \in 1..Len(lastResults) :
            EffectivePos(lastResults[m]) = EffectivePos(lastResults[n]) => m = n
       /\ \A i \in (1..Len(c)) \ kept :
            \E j \in kept : j < i /\ EffectivePos(c[j]) = EffectivePos(c[i])

\* both matchers answered, kensaku's first match lies where fzf's second
\* does but belongs to another word, and it was left out
C8_Witness ==
  /\ pc = "gt:store"
  /\ Len(fzfResult) = 2
  /\ Len(kensakuResults) = 2
  /\ EffectivePos(kensakuResults[1]) = EffectivePos(fzfResult[2])
  /\ kensakuResults[1] # fzfResult[2]
  /\ Len(lastResults) = 3
  /\ lastResults[3] = kensakuResults[2]

\* C9. Empty-input short-circuit: the matchers are run and labels assigned
\* only for a non-empty input; in a cycle whose input is "" getTarget returns
\* [] and nothing is mounted.
C9_EmptyInputShortCircuit ==
  /\ pc \in {"assign", "appendAssign"} => input # <<>>
  /\ (input = <<>> /\ pc \in {"mount", "redraw", "getchar"}) =>
       /\ targets = <<>>
       /\ fzfResult = <<>> /\ kensakuResults = <<>>
  /\ (input = <<>> /\ pc \in {"redraw", "getchar"}) =>
       /\ markIds = <<>> /\ popupIds = <<>> /\ targetMatchIds = <<>>
       /\ edMarks = {} /\ edPopups = {}

\* input went back to "" after Targets had been shown, and the cycle for ""
\* waits for a key
C9_Witness ==
  /\ pc = "getchar"
  /\ input = <<>>
  /\ keys = 2
  /\ lastOut # <<>>
  /\ targets = <<>>
  /\ edMarks = {} /\ edPopups = {}

\* input.slice(0, -1) said directly
ChopLast(in) == [i \in 1..(IF in = <<>> THEN 0 ELSE Len(in) - 1) |-> in[i]]

\* C10. Cache reset: a Backspace event (8 or 128) empties the Label Cache and
\* takes the last character off input ("" stays ""), a Clear-word event (23)
\* empties the Label Cache and input; the session goes on to its next cycle,
\* and the Label Cache is still empty when the next recomputation reads it.
C10_CacheReset ==
  /\ [][ (pc = "getchar" /\ keys' = keys + 1 /\ event' \in {BS, C_H}) =>
           /\ targetCache' = <<>>
           /\ input' = ChopLast(input)
           /\ pc' = "echo" /\ exitBy' = "none" ]_vars
  /\ [][ (pc = "getchar" /\ keys' = keys + 1 /\ event' = C_W) =>
           /\ targetCache' = <<>>
           /\ input' = <<>>
           /\ pc' = "echo" /\ exitBy' = "none" ]_vars
  /\ []((SinceKey /\ event \in {BS, C_H, C_W}) => targetCache = <<>>)

\* "xx" had Targets, Backspace left "x", and its matches are about to be labelled
C10_Witness ==
  /\ pc = "assign"
  /\ SinceKey
  /\ event = BS
  /\ input = <<120>>
  /\ lastInput = <<120, 120>>
  /\ lastOut # <<>>
  /\ targetCache = <<>>

\* the printable range of line 396
Printable == SPACE..TILDE

\* C11 as stated. Printable append: a printable event that does not resolve
\* to a label-key jump appends its character to input; so when the next cycle
\* starts the input is the one shown before, `edPrompt.input`, plus that
\* character.
C11_PrintableAppends ==
  (pc = "echo" /\ keys > 0 /\ exitBy = "none" /\ event \in Printable)
    => input = edPrompt.input \o <<event>>

\* C11 as amended. Printable append: a printable event whose code is not the
\* code of a label of the alphabet takes the append branch, and unless the
\* append fails input grows by exactly that one character.
C11_NonLabelPrintableAppends ==
  (keys > 0 /\ event \in Printable /\ event \notin LabelCodes) =>
     /\ code = event
     /\ passes = 0 => (pc \in {"append", "appendAssign"} \/ exitBy = "error")
     /\ exitBy \in {"none", "auto", "error"}
     /\ (pc = "appendAssign" \/ (pc = "echo" /\ passes = 1) \/ exitBy = "auto")
          => /\ Len(input) > 0
             /\ input[Len(input)] = event
             /\ edPrompt.input \in {SubSeq(input, 1, Len(input) - 1), <<>>}
     /\ (pc = "echo" /\ passes = 1) => input = edPrompt.input \o <<event>>

\* with labels configured, "x" was typed twice and the second cycle starts
C11_Witness ==
  /\ pc = "echo"
  /\ passes = 1
  /\ event = 120
  /\ labels # <<>>
  /\ input = <<120, 120>>
  /\ edPrompt.input = <<120>>

\* the event is the code of a label that no Target of the list `tgts` carries
Unresolvable(c, tgts) ==
  /\ c \in LabelCodes
  /\ \A i \in 1..Len(tgts) : tgts[i].char # <<c>>

\* C12. Unresolvable label key: a label code that no current Target carries
\* causes no jump and no error, leaves input and the Label Cache as they
\* are and takes the session to its next cycle, whose recomputation returns
\* the Target list of the cycle before.
C12_UnresolvableLabelKey ==
  /\ [][ (pc = "getchar" /\ keys' = keys + 1 /\ Unresolvable(event', targets)) =>
           /\ pc' = "echo"
           /\ exitBy' = "none"
           /\ input' = input
           /\ targetCache' = targetCache
           /\ jpc' = "idle" /\ jumpArg' = None ]_vars
  /\ [][ (SinceKey /\ Unresolvable(event, targets)
            /\ pc \in {"getTarget", "assign"} /\ pc' = "mount") =>
           targets' = targets ]_vars

\* the list shown did not hold label "a", "a" was pressed, and the next cycle
\* computed the same list again
C12_Witness ==
  /\ pc = "mount"
  /\ passes = 1
  /\ event = 97
  /\ exitBy = "none"
  /\ targets # <<>>
  /\ Unresolvable(event, targets)
  /\ lastOut = targets

\* the entries of the matcher output `m` at the first occurrence of each
\* effective position, in the order of `m`
Deduped(m) ==
  LET kept == FirstOccurrences(m)
  IN [n \in 1..Cardinality(kept) |-> m[NthOf(kept, n)]]

\* `p` is a prefix of `s`
IsPrefix(p, s) == Len(p) <= Len(s) /\ SubSeq(s, 1, Len(p)) = p

BothEnabled == Includes(matchers, "fzf") /\ Includes(matchers, "kensaku")

\* C13 as stated. Matcher priority follows configuration order: with both
\* matchers enabled, the entries of the matcher listed first come first in
\* the aggregated list and win the dedup ties.
C13_ConfiguredOrder ==
  (pc = "gt:store" /\ BothEnabled) =>
     IsPrefix(Deduped(IF matchers[1] = "fzf" THEN fzfResult ELSE kensakuResults),
              lastResults)

\* C13 as amended. Matcher priority is fixed: with both matchers enabled, in
\* whichever order the configuration lists them, the entries of fzf come
\* first in the aggregated list and win the dedup ties, and the entries of
\* kensaku that are left follow in kensaku's order.
C13_FzfFirst ==
  (pc = "gt:store" /\ BothEnabled) =>
     /\ IsPrefix(Deduped(fzfResult), lastResults)
     /\ lastResults = Deduped(fzfResult \o kensakuResults)
     /\ \A i \in 1..Len(kensakuResults) :
          (\E j \in 1..Len(fzfResult) :
              EffectivePos(fzfResult[j]) = EffectivePos(kensakuResults[i]))
            => \A n \in 1..Len(lastResults) :
                 lastResults[n] = kensakuResults[i]
                   => \E j \in 1..Len(fzfResult) : fzfResult[j] = kensakuResults[i]

\* kensaku is listed first, its first match ties with a match of fzf for
\* another word, and fzf's entry is the one kept, at the head of the list
C13_Witness ==
  /\ pc = "gt:store"
  /\ matchers = <<"kensaku", "fzf">>
  /\ fzfResult # <<>> /\ kensakuResults # <<>>
  /\ EffectivePos(kensakuResults[1]) = EffectivePos(fzfResult[1])
  /\ kensakuResults[1] # fzfResult[1]
  /\ lastResults[1] = fzfResult[1]
  /\ \A n \in 1..Len(lastResults) : lastResults[n] # kensakuResults[1]

\* no two Targets of `ts` share a char or an identity triple, and every
\* char is a label of the alphabet `lbls`
UniquelyLabelled(ts, lbls) ==
  /\ \A i, j \in 1..Len(ts) : ts[i].char = ts[j].char => i = j
  /\ \A i, j \in 1..Len(ts) : TripleOf(ts[i]) = TripleOf(ts[j]) => i = j
  /\ \A i \in 1..Len(ts) : \E n \in 1..Len(lbls) : lbls[n] = ts[i].char
  /\ Len(ts) <= Len(lbls)

\* C14. Label uniqueness: in every reachable state the Label Cache, the
\* Target list of the cycle and the list the last recomputation returned
\* hold no two Targets with the same char or the same identity triple, every
\* char is a label of the alphabet, and no list is longer than the alphabet.
C14_LabelUniqueness ==
  /\ UniquelyLabelled(targetCache, labels)
  /\ UniquelyLabelled(targets, labels)
  /\ UniquelyLabelled(lastOut, labels)

\* after an append (two recomputations) and an ignored key, two Targets are
\* shown, one carried from the cache and one newly labelled
C14_Witness ==
  /\ pc = "getchar"
  /\ keys = 3
  /\ event = 9
  /\ Len(input) = 2
  /\ Len(targets) = 2
  /\ targetCache = targets
  /\ targets[1].char = labels[2]
  /\ targets[2].char = labels[1]

\* the Target `t` has the identity triple of no Target of the Label Cache
IsNewEntry(t) == \A i \in 1..Len(targetCache) : TripleOf(targetCache[i]) # TripleOf(t)

\* the label `l` is the char of no Target of the Label Cache
IsFreeLabel(l) == \A i \in 1..Len(targetCache) : targetCache[i].char # l

\* C15. Freed labels: in a label-assignment pass no new entry (one not found
\* in the Label Cache) receives a char that a Target of the Label Cache holds
\* at the start of the pass, whether or not that Target is among the results;
\* the new entries receive, in order, the labels of the alphabet that no
\* Target of that cache holds, so a char that left the cache with the pass
\* before is given out again.
C15_FreedLabels ==
  pc = "gt:store" =>
    LET newOnes == SelectSeq(lastOut, IsNewEntry)
        freeLabels == SelectSeq(labels, IsFreeLabel)
    IN /\ \A i \in 1..Len(lastOut) :
            IsNewEntry(lastOut[i]) => IsFreeLabel(lastOut[i].char)
       /\ Len(newOnes) <= Len(freeLabels)
       /\ \A n \in 1..Len(newOnes) : newOnes[n].char = freeLabels[n]

\* the cache holds one Target, labelled with the second label (the holder of
\* the first label left with the pass before), and a new entry gets the
\* first label
C15_Witness ==
  /\ pc = "gt:store"
  /\ Len(labels) = 2
  /\ Len(targetCache) = 1
  /\ targetCache[1].char = labels[2]
  /\ Len(lastOut) = 2
  /\ IsNewEntry(lastOut[1])
  /\ lastOut[1].char = labels[1]
  /\ lastOut[2] = targetCache[1]

\* C16. Auto-jump is unambiguous: the session auto-jumps on an append only
\* when the aggregated, deduplicated match list for the new input has
\* exactly one entry.
C16_AutoJumpUnambiguous ==
  exitBy = "auto" => (lastInput = input /\ Len(lastResults) = 1)

ShownMatches == { m \in edMatches : m.group = "FuzzyMotionMatch" }

ShownShading == { m \in edMatches : m.group = "FuzzyMotionShade" }

\* C19. No stale shading after a start-up failure: when execute has ended,
\* also by a failure of getWords or of the read of the labels or of the
\* auto-jump flag, no shading match of the session is left.
C19_NoStaleShading ==
  pc = "done" => (ShownShading = {} /\ inflight = <<>>)

\* the last event was one that appends its character
LastEventAppended == keys > 0 /\ event \in Printable /\ event \notin LabelCodes

\* C20 as stated. One cache replacement per keystroke: between two
\* consecutive input events (and before the first one) exactly one
\* label-assignment pass reads and replaces the Label Cache.
C20_OncePerKey ==
  pc = "getchar" => passes = 1

\* C20 as amended. Between two consecutive input events (and before the
\* first one) the Label Cache is read and wholly replaced once by every
\* label-assignment pass, and there are two passes after a character append
\* (the recomputation of the append and that of the next cycle), no pass
\* when the input of the cycle is "" (the cache is neither read nor written),
\* and one pass otherwise.
C20_PassesPerKey ==
  /\ pc = "getchar" =>
       /\ passes = (IF input = <<>> THEN 0 ELSE IF LastEventAppended THEN 2 ELSE 1)
       /\ passes > 0 => (targetCache = lastOut /\ targets = lastOut /\ lastInput = input)
       /\ passes = 0 => targets = <<>>
  /\ (exitBy = "none" /\ passes > 0) => targetCache = lastOut

\* the cycle after an append waits for a key: two passes ran
C20_Witness ==
  /\ pc = "getchar"
  /\ passes = 2
  /\ event = 120
  /\ Len(input) = 2
  /\ targetCache = lastOut
  /\ lastOut # <<>>

====
